---- MODULE Spec2Model ----
(***************************************************************************)
(* Scan-and-restock pipeline of the inventory backend: ProductService      *)
(* (cache-aside catalog), ScannerService (quickAdd / receiveInventory) and *)
(* the collaborators they call (cache layer, barcode codec, durable        *)
(* store).  Every caller is one asynchronous request; one action is one    *)
(* run of a request between two awaits.                                    *)
(***************************************************************************)
EXTENDS Integers, Sequences, FiniteSets, TLC

\* ------------------------------------------------------------------ bounds
NumCallers == 2
MaxQty == 1
SeedQty == 2
\* How many scans the clients that repeat their requests send in all.
MaxScans == 2

\* --------------------------------------------------------------- constants
\* Product.inventory is nullable: a product without an inventory record.
NoInv == -1
\* Canonical length numeric codes are left-padded to (UPC-A).
UpcLength == 12

Callers == 1..NumCallers
\* A quantity addStock rejects and one it accepts.
Quantities == {0, MaxQty}
IdPool == <<"p1", "p2", "p3", "p4", "p5", "p6">>
Names == {"n0", "n1"}
NoSku == ""

\* ------------------------------------------------------------ barcode codec
Digits == {"0", "1", "2", "3", "4", "5", "6", "7", "8", "9"}
ToUpper(c) ==
    CASE c = "a" -> "A"
      [] c = "b" -> "B"
      [] OTHER -> c
IsAlnum(c) == c \in Digits \cup {"a", "b", "A", "B"}
IsNumeric(s) == Len(s) > 0 /\ \A i \in 1..Len(s) : s[i] \in Digits
RECURSIVE PadLeft(_, _)
PadLeft(s, n) == IF Len(s) >= n THEN s ELSE PadLeft(<<"0">> \o s, n)
StripUpper(raw) ==
    LET kept == SelectSeq(raw, IsAlnum)
    IN  [i \in 1..Len(kept) |-> ToUpper(kept[i])]
\* BarcodeDecoderService.normalize
normalize(raw) ==
    LET s == StripUpper(raw)
    IN  IF IsNumeric(s) THEN PadLeft(s, UpcLength) ELSE s

\* BarcodeDecoderService.decode: always answers; input it does not recognize
\* is UNKNOWN and not valid.
NoDecoded == [rawValue |-> <<>>, normalizedValue |-> <<>>, format |-> "", isValid |-> FALSE]
decode(raw) ==
    LET format == IF IsNumeric(raw) THEN "UPC"
                  ELSE IF Len(raw) > 0 /\ \A i \in 1..Len(raw) : IsAlnum(raw[i])
                  THEN "CODE128"
                  ELSE "UNKNOWN"
    IN  [rawValue |-> raw, normalizedValue |-> normalize(raw), format |-> format,
         isValid |-> format # "UNKNOWN"]

\* Raw strings the callers scan, and the barcodes they submit in a create dto.
RawBarcodes == {<<"a", "-", "1">>, <<"b", "9">>, <<"7">>}
DtoBarcodes == RawBarcodes \cup {<<"A", "1">>}

\* ------------------------------------------------------------ durable store
NoProduct ==
    [id |-> "", barcode |-> <<>>, sku |-> NoSku, name |-> "",
     isActive |-> FALSE, inv |-> NoInv]
IsProduct(x) == x.id # ""
HasInventory(prod) == prod.inv # NoInv

SeedStore(q) ==
    [i \in {"p1", "p2"} |->
        IF i = "p1"
        THEN [id |-> "p1", barcode |-> <<"A", "1">>, sku |-> "s1", name |-> "n0",
              isActive |-> TRUE, inv |-> q]
        ELSE [id |-> "p2", barcode |-> <<"B", "9">>, sku |-> NoSku, name |-> "n0",
              isActive |-> TRUE, inv |-> NoInv]]

\* ---------------------------------------------------------------- cache keys
\* A key is its sequence of tokens; the first token is the literal prefix.
KeyById(id) == <<"product:", id>>
KeyByBarcode(b) == <<"product:barcode:">> \o b
KeyScan(rawValue) == <<"scan:product:">> \o rawValue

VARIABLES
    store,      \* durable store: product id -> Product row (inventory joined in)
    seed,       \* the store as it was before the first request
    cache,      \* cache layer: key -> cached value
    inflight,   \* keys whose getOrSet computation is running
    counters,   \* the cache layer's numeric counters (metrics:*)
    call        \* caller -> the request it runs and where it stands

vars == <<store, seed, cache, inflight, counters, call>>

\* ------------------------------------------------------------ cache layer
CacheSet(ch, k, v) == [x \in (DOMAIN ch) \cup {k} |-> IF x = k THEN v ELSE ch[x]]
CacheDelete(ch, k) == [x \in (DOMAIN ch) \ {k} |-> ch[x]]
\* Glob match of a key against a pattern whose last token is "*".
GlobMatch(pattern, k) ==
    LET n == Len(pattern) - 1
    IN  /\ Len(k) >= n
        /\ \A i \in 1..n : k[i] = pattern[i]
CacheDeleteByPattern(ch, pattern) ==
    [x \in {k \in DOMAIN ch : ~GlobMatch(pattern, k)} |-> ch[x]]
CounterKeys == {"metrics:total-scans", "metrics:scans:lookup", "metrics:scans:add",
                "metrics:scans:receive"}
CacheIncrement(cn, k) == [cn EXCEPT ![k] = @ + 1]

\* ------------------------------------------------------- product repository
findByBarcode(st, b) ==
    IF \E i \in DOMAIN st : st[i].barcode = b
    THEN st[CHOOSE i \in DOMAIN st : st[i].barcode = b]
    ELSE NoProduct
findBySku(st, s) ==
    IF \E i \in DOMAIN st : st[i].sku = s
    THEN st[CHOOSE i \in DOMAIN st : st[i].sku = s]
    ELSE NoProduct
findWithRelations(st, id) == IF id \in DOMAIN st THEN st[id] ELSE NoProduct
\* A products table without unique columns.
NoUniqueColumns(st, prod) == FALSE
\* The unique columns of the products table (barcode; sku when not null).
UniqueViolation(st, prod) ==
    \E i \in DOMAIN st :
        \/ st[i].barcode = prod.barcode
        \/ (prod.sku # NoSku /\ st[i].sku = prod.sku)
NextId(st) == IdPool[Cardinality(DOMAIN st) + 1]
\* A list result: the ids of its rows; known is what the store held when the
\* list was put in the cache.
ListOf(ids) == [id |-> "list", rows |-> ids, known |-> {}]
IsList(x) == x.id = "list"
\* Product.isLowStock: quantityAvailable < (reorderLevel || 10)
ReorderLevel == 10
isLowStock(prod) == HasInventory(prod) /\ prod.inv < ReorderLevel
findLowStock(st) == ListOf({i \in DOMAIN st : isLowStock(st[i])})
SearchTerms == {"n0"}
searchByTerm(st, term) == ListOf({i \in DOMAIN st : st[i].name = term})

\* --------------------------------------------------------- inventory entity
AddStockThrows(q) == q <= 0
addStock(prod, q) == [prod EXCEPT !.inv = @ + q]

\* ------------------------------------------------------------------ requests
NoResp ==
    [success |-> FALSE, threw |-> FALSE, product |-> NoProduct, newStock |-> 0,
     message |-> <<>>, durable |-> NoInv, left |-> {}, barcode |-> NoDecoded,
     cached |-> FALSE]
\* The tallies of a loop over items (bulkImportProducts, batchScan).
NoResults ==
    [processed |-> 0, succeeded |-> 0, failed |-> 0, items |-> <<>>,
     created |-> 0, errors |-> <<>>]
\* wrote: the request's durable write is committed; was: the barcode the row
\* had just before that write; swept: the keys its pattern deletes removed.
Idle ==
    [op |-> "idle", pc |-> "idle", barcode |-> <<>>, qty |-> 0, id |-> "",
     name |-> "", sku |-> NoSku, key |-> <<>>, val |-> NoProduct,
     product |-> NoProduct, resp |-> NoResp, deleted |-> <<>>, log |-> <<>>,
     pre |-> <<>>, after |-> {}, seen |-> {}, wrote |-> FALSE, was |-> <<>>,
     swept |-> {},
     outer |-> "", queue |-> <<>>, results |-> NoResults, cached |-> FALSE,
     batchOp |-> "", input |-> <<>>, faults |-> {}]
InvColumn(st) == [i \in DOMAIN st |-> st[i].inv]
\* A request as it arrives: pre is the inventory column at that moment, after
\* the createProduct requests that had returned by then.
Begin(opName) ==
    [Idle EXCEPT !.op = opName, !.pre = InvColumn(store),
                 !.after = {d \in Callers : call[d].pc = "done"
                                              /\ call[d].op = "createProduct"}]
\* bulkImportProducts' loop body after createProduct settled: count it, then
\* call createProduct for the next dto or return the tallies.
bulkImportNext(r, response) ==
    LET res == IF response.threw
               THEN [r.results EXCEPT
                       !.failed = @ + 1,
                       !.errors = Append(@, [barcode |-> r.barcode,
                                             error |-> response.message])]
               ELSE [r.results EXCEPT !.created = @ + 1]
    IN  IF r.queue = <<>>
        THEN [r EXCEPT !.results = res, !.pc = "done",
                       !.resp = [NoResp EXCEPT !.success = TRUE]]
        ELSE [r EXCEPT !.results = res, !.barcode = Head(r.queue).barcode,
                       !.sku = Head(r.queue).sku, !.queue = Tail(r.queue),
                       !.product = NoProduct, !.wrote = FALSE, !.deleted = <<>>,
                       !.swept = {}, !.pc = "findBarcode"]
\* batchScan: `operation === 'lookup'`, or add / receive with a truthy quantity.
Supported(operation, quantity) ==
    \/ operation = "lookup"
    \/ (operation \in {"add", "receive"} /\ quantity # 0)
MsgTypeError == <<"Cannot read properties of undefined (reading 'success')">>
\* The entries of results.items: a response, the undefined itemResult of an
\* operation no branch handled, the object the catch pushes.
ItemOf(pos, b, response) ==
    [pos |-> pos, barcode |-> b, defined |-> TRUE, success |-> response.success,
     newStock |-> response.newStock, message |-> response.message]
UndefinedItem(pos) ==
    [pos |-> pos, barcode |-> <<>>, defined |-> FALSE, success |-> FALSE,
     newStock |-> 0, message |-> <<>>]
CaughtItem(pos, b, msg) ==
    [pos |-> pos, barcode |-> b, defined |-> TRUE, success |-> FALSE,
     newStock |-> 0, message |-> msg]
\* Position in the input of the barcode whose iteration runs or ran last.
PosOf(r) == Len(r.input) - Len(r.queue)

\* batchScan without its try / catch: the TypeError leaves the call.
batchScanLoopNoCatch(r) ==
    IF r.queue = <<>>
    THEN [r EXCEPT !.pc = "done", !.resp = [NoResp EXCEPT !.success = TRUE]]
    ELSE LET b == Head(r.queue)
             next == [r EXCEPT !.queue = Tail(r.queue), !.barcode = b,
                               !.val = NoProduct, !.product = NoProduct,
                               !.cached = FALSE]
         IN  IF ~Supported(r.batchOp, r.qty)
             THEN [next EXCEPT
                     !.results.items = Append(@, UndefinedItem(PosOf(next))),
                     !.results.processed = @ + 1,
                     !.pc = "done",
                     !.resp = [NoResp EXCEPT !.threw = TRUE, !.message = MsgTypeError]]
             ELSE IF r.batchOp = "lookup"
             THEN [next EXCEPT !.op = "decodeScan", !.pc = "scanGet"]
             ELSE [next EXCEPT
                     !.op = IF r.batchOp = "add" THEN "quickAdd" ELSE "receiveInventory",
                     !.key = KeyByBarcode(normalize(b)), !.pc = "get"]

RECURSIVE batchScanLoop(_)
\* batchScan's for loop from the top of an iteration to its next await: the
\* call of decodeScan / quickAdd / receiveInventory for the next barcode.  An
\* iteration no branch handles awaits nothing: it pushes the undefined
\* itemResult, counts it as processed, and reading itemResult.success throws
\* into the catch, which counts a failure and pushes a failed item.
batchScanLoop(r) ==
    IF r.queue = <<>>
    THEN [r EXCEPT !.pc = "done", !.resp = [NoResp EXCEPT !.success = TRUE]]
    ELSE LET b == Head(r.queue)
             next == [r EXCEPT !.queue = Tail(r.queue), !.barcode = b,
                               !.val = NoProduct, !.product = NoProduct,
                               !.cached = FALSE]
         IN  IF ~Supported(r.batchOp, r.qty)
             THEN batchScanLoop(
                    [next EXCEPT
                       !.results.items = @ \o <<UndefinedItem(PosOf(next)),
                                                CaughtItem(PosOf(next), b, MsgTypeError)>>,
                       !.results.processed = @ + 1,
                       !.results.failed = @ + 1])
             ELSE IF r.batchOp = "lookup"
             THEN [next EXCEPT !.op = "decodeScan", !.pc = "scanGet"]
             ELSE [next EXCEPT
                     !.op = IF r.batchOp = "add" THEN "quickAdd" ELSE "receiveInventory",
                     !.key = KeyByBarcode(normalize(b)), !.pc = "get"]

\* batchScan that returns at the first item that failed.
batchScanNextAborts(r, response) ==
    LET counted == [r.results EXCEPT
                      !.items = Append(@, ItemOf(PosOf(r), r.barcode, response)),
                      !.processed = @ + 1]
    IN  IF response.success
        THEN batchScanLoop([r EXCEPT !.results = [counted EXCEPT !.succeeded = @ + 1]])
        ELSE [r EXCEPT !.results = [counted EXCEPT !.failed = @ + 1],
                       !.pc = "done", !.resp = [NoResp EXCEPT !.success = TRUE]]

\* The rest of an iteration once the awaited call settled: push and count its
\* response, or count and push a failed item in the catch; then loop.
batchScanNext(r, response) ==
    LET counted == [r.results EXCEPT
                      !.items = Append(@, ItemOf(PosOf(r), r.barcode, response)),
                      !.processed = @ + 1]
        res == IF response.threw
               THEN [r.results EXCEPT
                       !.failed = @ + 1,
                       !.items = Append(@, CaughtItem(PosOf(r), r.barcode,
                                                      response.message))]
               ELSE IF response.success
               THEN [counted EXCEPT !.succeeded = @ + 1]
               ELSE [counted EXCEPT !.failed = @ + 1]
    IN  batchScanLoop([r EXCEPT !.results = res])

\* A service call settles: its caller gets the response, or the loop that
\* made the call goes on.
Finish(r, response) ==
    IF r.outer = "bulkImportProducts"
    THEN bulkImportNext(r, response)
    ELSE IF r.outer = "batchScan"
    THEN batchScanNext(r, response)
    ELSE [r EXCEPT !.pc = "done", !.resp = response]

TypeOK ==
    /\ DOMAIN call = Callers
    /\ \A k \in DOMAIN cache : IsProduct(cache[k])
    /\ \A i \in DOMAIN store : store[i].id = i

Init ==
    /\ \E q \in {0, SeedQty} : store = SeedStore(q)
    /\ seed = store
    /\ cache = <<>>
    /\ inflight = {}
    /\ counters = [k \in CounterKeys |-> 0]
    /\ call = [c \in Callers |-> Idle]

\* ----------------------------------------------------- CacheService.getOrSet
\* The computation getOrSet was given for a key: the durable-store query.
Compute(k) ==
    CASE Head(k) = "product:barcode:" -> findByBarcode(store, Tail(k))
      [] Head(k) = "products:" -> findLowStock(store)
      [] Head(k) = "search:" -> searchByTerm(store, k[2])
      [] OTHER -> findWithRelations(store, k[2])

\* cache.get answers: a hit returns the cached value; on a miss the caller
\* becomes the computer of the key, or waits for the one that already is.
getOrSetGet(c) ==
    /\ call[c].pc = "get"
    /\ LET k == call[c].key
       IN  IF k \in DOMAIN cache
           THEN /\ call' = [call EXCEPT ![c].val = cache[k], ![c].pc = "resolved"]
                /\ UNCHANGED inflight
           ELSE IF k \in inflight
                THEN /\ call' = [call EXCEPT ![c].pc = "wait"]
                     /\ UNCHANGED inflight
                ELSE /\ call' = [call EXCEPT ![c].pc = "compute"]
                     /\ inflight' = inflight \cup {k}
    /\ UNCHANGED <<store, seed, cache, counters>>

\* computeFn's durable-store query answers.
getOrSetCompute(c) ==
    /\ call[c].pc = "compute"
    /\ call' = [call EXCEPT ![c].val = Compute(call[c].key), ![c].pc = "set"]
    /\ UNCHANGED <<store, seed, cache, inflight, counters>>

\* What cache.set stores: the value; a list also records the store's ids.
Cached(v) == IF IsList(v) THEN [v EXCEPT !.known = DOMAIN store] ELSE v
\* computeFn's durable-store query fails: nothing is cached, the computer and
\* its waiters get the failure.
getOrSetFails(c) ==
    /\ call[c].pc = "compute"
    /\ LET k == call[c].key
       IN  /\ inflight' = inflight \ {k}
           /\ call' = [d \in Callers |->
                         IF d = c \/ (call[d].pc = "wait" /\ call[d].key = k)
                         THEN [call[d] EXCEPT !.pc = "rejected"]
                         ELSE call[d]]
    /\ UNCHANGED <<store, seed, cache, counters>>

\* cache.set of the computed value; the computer and its waiters get the value.
getOrSetSet(c) ==
    /\ call[c].pc = "set"
    /\ LET k == call[c].key
           v == call[c].val
       IN  /\ cache' = IF IsProduct(v) THEN CacheSet(cache, k, Cached(v)) ELSE cache
           /\ inflight' = inflight \ {k}
           /\ call' = [d \in Callers |->
                         IF d = c \/ (call[d].pc = "wait" /\ call[d].key = k)
                         THEN [call[d] EXCEPT !.val = v, !.pc = "resolved"]
                         ELSE call[d]]
    /\ UNCHANGED <<store, seed, counters>>

\* ------------------------------------------ ProductService: cached lookups
DurableInv(prod) ==
    IF IsProduct(prod) /\ prod.id \in DOMAIN store THEN store[prod.id].inv ELSE NoInv

\* getProductByBarcode keyed by the barcode as given.
getProductByBarcodeRaw(c, b) ==
    /\ call[c].pc = "idle"
    /\ call' = [call EXCEPT ![c] =
                  [Begin("getProductByBarcode") EXCEPT
                      !.barcode = b, !.key = KeyByBarcode(b), !.pc = "get"]]
    /\ UNCHANGED <<store, seed, cache, inflight, counters>>

getProductByBarcode(c, b) ==
    /\ call[c].pc = "idle"
    /\ call' = [call EXCEPT ![c] =
                  [Begin("getProductByBarcode") EXCEPT
                      !.barcode = b, !.key = KeyByBarcode(normalize(b)), !.pc = "get"]]
    /\ UNCHANGED <<store, seed, cache, inflight, counters>>

getProductById(c, id) ==
    /\ call[c].pc = "idle"
    /\ call' = [call EXCEPT ![c] =
                  [Begin("getProductById") EXCEPT
                      !.id = id, !.key = KeyById(id), !.pc = "get"]]
    /\ UNCHANGED <<store, seed, cache, inflight, counters>>

\* A lookup returns what getOrSet gave it.
lookupReturn(c) ==
    /\ call[c].pc = "resolved"
    /\ call[c].op \in {"getProductByBarcode", "getProductById"}
    /\ call' = [call EXCEPT ![c] =
                  Finish(call[c],
                         [NoResp EXCEPT !.success = IsProduct(call[c].val),
                                        !.product = call[c].val,
                                        !.durable = DurableInv(call[c].val)])]
    /\ UNCHANGED <<store, seed, cache, inflight, counters>>

\* ------------------------------------------------------------ ScannerService
\* Response messages, as their tokens (a template's ${...} is one token).
MsgQuickAddNotFound == <<"Product with barcode ", "${barcode}", " ", "not found">>
MsgQuickAddNoInventory == <<"Inventory record ", "not found", " for product">>
MsgAddStockError == <<"Error adding stock: ", "InvalidQuantity">>
MsgQuickAddOk == <<"Successfully added ", "${quantity}", " units of ", "${name}">>
MsgReceiveNotFound == <<"Product ", "not found">>
MsgReceiveNoInventory == <<"Inventory record missing">>
MsgReceiveError == <<"InvalidQuantity">>
MsgReceiveOk == <<"Received ", "${quantity}", " units">>
Contains(msg, token) == \E i \in 1..Len(msg) : msg[i] = token

\* The scanLog object logScan builds.
ScanLogOf(r, prod, type) ==
    [product |-> prod.id, barcodeScanned |-> r.barcode, scanType |-> type,
     quantity |-> r.qty]
ScanTypeOf(opName) ==
    CASE opName = "quickAdd" -> "add"
      [] opName = "decodeScan" -> "lookup"
      [] OTHER -> "receive"
CounterOf(scanType) ==
    CASE scanType = "add" -> "metrics:scans:add"
      [] scanType = "lookup" -> "metrics:scans:lookup"
      [] OTHER -> "metrics:scans:receive"

quickAdd(c, b, q) ==
    /\ call[c].pc = "idle"
    /\ call' = [call EXCEPT ![c] =
                  [Begin("quickAdd") EXCEPT
                      !.barcode = b, !.qty = q,
                      !.key = KeyByBarcode(normalize(b)), !.pc = "get"]]
    /\ UNCHANGED <<store, seed, cache, inflight, counters>>

receiveInventory(c, b, q) ==
    /\ call[c].pc = "idle"
    /\ call' = [call EXCEPT ![c] =
                  [Begin("receiveInventory") EXCEPT
                      !.barcode = b, !.qty = q,
                      !.key = KeyByBarcode(normalize(b)), !.pc = "get"]]
    /\ UNCHANGED <<store, seed, cache, inflight, counters>>

\* The answer of quickAdd's outer catch.
MsgQuickAddError == <<"Error in quick add: ", "${error}">>

\* Mutant: quickAdd without its `if (!product)` return; reading the inventory
\* of a null product throws into the outer catch.
quickAddCheckedNoNullCheck(r) ==
    LET product == r.val
    IN  IF ~IsProduct(product)
        THEN Finish(r, [NoResp EXCEPT !.message = MsgQuickAddError])
        ELSE IF ~HasInventory(product)
        THEN Finish(r, [NoResp EXCEPT !.product = product,
                                      !.message = MsgQuickAddNoInventory])
        ELSE IF AddStockThrows(r.qty)
        THEN Finish(r, [NoResp EXCEPT !.product = product,
                                      !.newStock = product.inv,
                                      !.message = MsgAddStockError])
        ELSE [r EXCEPT !.product = addStock(product, r.qty),
                       !.log = Append(@, ScanLogOf(r, product, "add")),
                       !.pc = "logTotal"]

\* Mutant: quickAdd whose catch around addStock does not return.
quickAddCheckedSwallow(r) ==
    LET product == r.val
    IN  IF ~IsProduct(product)
        THEN Finish(r, [NoResp EXCEPT !.message = MsgQuickAddNotFound])
        ELSE IF ~HasInventory(product)
        THEN Finish(r, [NoResp EXCEPT !.product = product,
                                      !.message = MsgQuickAddNoInventory])
        ELSE [r EXCEPT !.product = IF AddStockThrows(r.qty) THEN product
                                   ELSE addStock(product, r.qty),
                       !.log = Append(@, ScanLogOf(r, product, "add")),
                       !.pc = "logTotal"]

\* Mutant: quickAdd that gives a product without inventory a fresh record.
quickAddCheckedCreatesInventory(r) ==
    LET product == IF IsProduct(r.val) /\ ~HasInventory(r.val)
                   THEN [r.val EXCEPT !.inv = 0] ELSE r.val
    IN  IF ~IsProduct(product)
        THEN Finish(r, [NoResp EXCEPT !.message = MsgQuickAddNotFound])
        ELSE IF AddStockThrows(r.qty)
        THEN Finish(r, [NoResp EXCEPT !.product = product,
                                      !.newStock = product.inv,
                                      !.message = MsgAddStockError])
        ELSE [r EXCEPT !.product = addStock(product, r.qty),
                       !.log = Append(@, ScanLogOf(r, product, "add")),
                       !.pc = "logTotal"]

\* quickAdd from the product lookup's answer up to logScan's first await.
quickAddChecked(r) ==
    LET product == r.val
    IN  IF ~IsProduct(product)
        THEN Finish(r, [NoResp EXCEPT !.message = MsgQuickAddNotFound])
        ELSE IF ~HasInventory(product)
        THEN Finish(r, [NoResp EXCEPT !.product = product,
                                      !.message = MsgQuickAddNoInventory])
        ELSE IF AddStockThrows(r.qty)
        THEN Finish(r, [NoResp EXCEPT !.product = product,
                                      !.newStock = product.inv,
                                      !.message = MsgAddStockError])
        ELSE [r EXCEPT !.product = addStock(product, r.qty),
                       !.log = Append(@, ScanLogOf(r, product, "add")),
                       !.pc = "logTotal"]

\* receiveInventory from the product lookup's answer up to logScan's first await.
receiveInventoryChecked(r) ==
    LET product == r.val
    IN  IF ~IsProduct(product)
        THEN Finish(r, [NoResp EXCEPT !.message = MsgReceiveNotFound])
        ELSE IF ~HasInventory(product)
        THEN Finish(r, [NoResp EXCEPT !.product = product,
                                      !.message = MsgReceiveNoInventory])
        ELSE IF AddStockThrows(r.qty)
        THEN Finish(r, [NoResp EXCEPT !.message = MsgReceiveError])
        ELSE [r EXCEPT !.product = addStock(product, r.qty),
                       !.log = Append(@, ScanLogOf(r, product, "receive")),
                       !.pc = "logTotal"]

\* quickAdd saving the inventory it added to before it logs.
quickAddResolvedPersists(c) ==
    /\ call[c].pc = "resolved"
    /\ call[c].op = "quickAdd"
    /\ LET r == quickAddChecked(call[c])
       IN  /\ call' = [call EXCEPT ![c] = r]
           /\ store' = IF r.pc = "logTotal"
                       THEN [store EXCEPT ![r.product.id].inv = r.product.inv]
                       ELSE store
    /\ UNCHANGED <<seed, cache, inflight, counters>>

quickAddResolved(c) ==
    /\ call[c].pc = "resolved"
    /\ call[c].op = "quickAdd"
    /\ call' = [call EXCEPT ![c] = quickAddChecked(call[c])]
    /\ UNCHANGED <<store, seed, cache, inflight, counters>>

receiveInventoryResolved(c) ==
    /\ call[c].pc = "resolved"
    /\ call[c].op = "receiveInventory"
    /\ call' = [call EXCEPT ![c] = receiveInventoryChecked(call[c])]
    /\ UNCHANGED <<store, seed, cache, inflight, counters>>

\* logScan: increment('metrics:total-scans')
logScanTotal(c) ==
    /\ call[c].pc = "logTotal"
    /\ counters' = CacheIncrement(counters, "metrics:total-scans")
    /\ call' = [call EXCEPT ![c].pc = "logType"]
    /\ UNCHANGED <<store, seed, cache, inflight>>

MsgDecodeFound == <<"Product found">>
MsgDecodeNotFound == <<"Barcode decoded but product not in database">>
MsgDecodeError == <<"Error decoding scan: ", "${error}">>

\* The message of an error a collaborator raised.
MsgFailure == <<"${error}">>
\* The outer catch of decodeScan / quickAdd / receiveInventory: a failure
\* response instead of a raised error.
OuterCatch(r) ==
    CASE r.op = "decodeScan" ->
           Finish(r, [NoResp EXCEPT !.barcode = decode(r.barcode),
                                    !.message = MsgDecodeError])
      [] r.op = "quickAdd" ->
           Finish(r, [NoResp EXCEPT !.message = MsgQuickAddError])
      [] OTHER ->
           Finish(r, [NoResp EXCEPT !.message = MsgFailure])

\* What the request does once logScan has returned.
AfterLogScan(r) ==
    IF r.op = "quickAdd"
    THEN [r EXCEPT !.pc = "deleteId"]
    ELSE IF r.op = "decodeScan"
    THEN Finish(r, [NoResp EXCEPT !.success = IsProduct(r.product),
                                  !.product = r.product,
                                  !.barcode = decode(r.barcode),
                                  !.cached = r.cached,
                                  !.message = IF IsProduct(r.product)
                                              THEN MsgDecodeFound
                                              ELSE MsgDecodeNotFound])
    ELSE Finish(r, [NoResp EXCEPT !.success = TRUE, !.product = r.product,
                                  !.newStock = r.product.inv,
                                  !.message = MsgReceiveOk])

\* logScan incrementing metrics:total-scans a second time instead of the
\* counter of the scan type.
logScanTypeCountsTotal(c) ==
    /\ call[c].pc = "logType"
    /\ counters' = CacheIncrement(counters, "metrics:total-scans")
    /\ call' = [call EXCEPT ![c] = AfterLogScan(call[c])]
    /\ UNCHANGED <<store, seed, cache, inflight>>

\* logScan: increment(`metrics:scans:${scanType}`), then back in the request.
logScanType(c) ==
    /\ call[c].pc = "logType"
    /\ counters' = CacheIncrement(counters, CounterOf(ScanTypeOf(call[c].op)))
    /\ call' = [call EXCEPT ![c] = AfterLogScan(call[c])]
    /\ UNCHANGED <<store, seed, cache, inflight>>

\* logScan whose failure leaves it: the caller's outer catch answers.
logScanFailsPropagates(c) ==
    /\ call[c].pc \in {"logTotal", "logType"}
    /\ call' = [call EXCEPT ![c] = OuterCatch([call[c] EXCEPT !.faults = @ \cup {"log"}])]
    /\ UNCHANGED <<store, seed, cache, inflight, counters>>

\* An increment of logScan fails: logScan's catch swallows the error, the
\* rest of logScan is skipped and the caller goes on.
logScanFails(c) ==
    /\ call[c].pc \in {"logTotal", "logType"}
    /\ call' = [call EXCEPT ![c] = AfterLogScan([call[c] EXCEPT !.faults = @ \cup {"log"}])]
    /\ UNCHANGED <<store, seed, cache, inflight, counters>>

\* ------------------------------------------------ ScannerService.decodeScan
\* seen is the updateProduct requests that had returned when the scan arrived.
decodeScan(c, b) ==
    /\ call[c].pc = "idle"
    /\ call' = [call EXCEPT ![c] =
                  [Begin("decodeScan") EXCEPT
                      !.barcode = b, !.pc = "scanGet",
                      !.seen = {d \in Callers : call[d].pc = "done"
                                                 /\ call[d].op = "updateProduct"}]]
    /\ UNCHANGED <<store, seed, cache, inflight, counters>>

\* cacheService.get(scan:product:<rawValue>) answered: a hit goes to logScan,
\* a miss calls getProductByBarcode(decoded.rawValue).
decodeScanCacheGet(c) ==
    /\ call[c].pc = "scanGet"
    /\ LET k == KeyScan(decode(call[c].barcode).rawValue)
       IN  call' = [call EXCEPT ![c] =
                      IF k \in DOMAIN cache
                      THEN [call[c] EXCEPT
                              !.product = cache[k], !.cached = TRUE,
                              !.log = Append(@, ScanLogOf(call[c], cache[k], "lookup")),
                              !.pc = "logTotal"]
                      ELSE [call[c] EXCEPT
                              !.key = KeyByBarcode(normalize(decode(call[c].barcode).rawValue)),
                              !.pc = "get"]]
    /\ UNCHANGED <<store, seed, cache, inflight, counters>>

\* getProductByBarcode answered: a product is put under the scan key first.
decodeScanResolved(c) ==
    /\ call[c].pc = "resolved"
    /\ call[c].op = "decodeScan"
    /\ call' = [call EXCEPT ![c] =
                  IF IsProduct(call[c].val)
                  THEN [call[c] EXCEPT !.product = call[c].val, !.pc = "scanSet"]
                  ELSE [call[c] EXCEPT
                          !.product = call[c].val,
                          !.log = Append(@, ScanLogOf(call[c], call[c].val, "lookup")),
                          !.pc = "logTotal"]]
    /\ UNCHANGED <<store, seed, cache, inflight, counters>>

\* cacheService.set(scan:product:<rawValue>, product)
decodeScanCacheSet(c) ==
    /\ call[c].pc = "scanSet"
    /\ cache' = CacheSet(cache, KeyScan(decode(call[c].barcode).rawValue),
                         call[c].product)
    /\ call' = [call EXCEPT
                  ![c].log = Append(@, ScanLogOf(call[c], call[c].product, "lookup")),
                  ![c].pc = "logTotal"]
    /\ UNCHANGED <<store, seed, inflight, counters>>

\* decodeScan without its catch: the lookup's failure leaves the call.
decodeScanRejectedRethrows(c) ==
    /\ call[c].pc = "rejected"
    /\ call[c].op = "decodeScan"
    /\ call' = [call EXCEPT ![c] =
                  Finish(call[c], [NoResp EXCEPT !.threw = TRUE,
                                                 !.message = MsgDecodeError])]
    /\ UNCHANGED <<store, seed, cache, inflight, counters>>

\* The lookup failed: decodeScan's catch answers with the decoded barcode.
decodeScanRejected(c) ==
    /\ call[c].pc = "rejected"
    /\ call[c].op = "decodeScan"
    /\ call' = [call EXCEPT ![c] =
                  Finish(call[c], [NoResp EXCEPT !.barcode = decode(call[c].barcode),
                                                 !.message = MsgDecodeError])]
    /\ UNCHANGED <<store, seed, cache, inflight, counters>>

\* -------------------------------------------------- ScannerService.batchScan
\* A known barcode, an unknown one, the known one again.
BatchLists == {<<<<"a", "-", "1">>, <<"7">>, <<"a", "-", "1">>>>}
\* operation and quantity: the three handled combinations, and count, add
\* and receive without a quantity.
BatchModes ==
    {<<"lookup", 0>>, <<"add", MaxQty>>, <<"receive", MaxQty>>,
     <<"count", MaxQty>>, <<"add", 0>>, <<"receive", 0>>}
batchScan(c, barcodes, operation, quantity) ==
    /\ call[c].pc = "idle"
    /\ call' = [call EXCEPT ![c] =
                  batchScanLoop([Begin("batchScan") EXCEPT
                                   !.outer = "batchScan", !.batchOp = operation,
                                   !.qty = quantity, !.input = barcodes,
                                   !.queue = barcodes])]
    /\ UNCHANGED <<store, seed, cache, inflight, counters>>

\* --------------------------------------------------- an unreachable cache
\* cacheService.get / set of decodeScan fails: the outer catch answers.
decodeScanCacheFails(c) ==
    /\ call[c].pc \in {"scanGet", "scanSet"}
    /\ call' = [call EXCEPT ![c] = OuterCatch([call[c] EXCEPT !.faults = @ \cup {"cache"}])]
    /\ UNCHANGED <<store, seed, cache, inflight, counters>>

\* The cache read of getOrSet fails: getOrSet's caller gets the failure.
getOrSetGetFails(c) ==
    /\ call[c].pc = "get"
    /\ call' = [call EXCEPT ![c].faults = @ \cup {"cache"}, ![c].pc = "rejected"]
    /\ UNCHANGED <<store, seed, cache, inflight, counters>>

\* getProductByBarcode has no catch: the failure of getOrSet leaves it.
lookupRejected(c) ==
    /\ call[c].pc = "rejected"
    /\ call[c].op \in {"getProductByBarcode", "getProductById"}
    /\ call' = [call EXCEPT ![c] =
                  Finish(call[c], [NoResp EXCEPT !.threw = TRUE,
                                                 !.message = MsgFailure])]
    /\ UNCHANGED <<store, seed, cache, inflight, counters>>

\* getProductByBarcode failed inside quickAdd / receiveInventory: the outer
\* catch answers.
scanRejected(c) ==
    /\ call[c].pc = "rejected"
    /\ call[c].op \in {"quickAdd", "receiveInventory"}
    /\ call' = [call EXCEPT ![c] = OuterCatch(call[c])]
    /\ UNCHANGED <<store, seed, cache, inflight, counters>>

\* One of quickAdd's two cacheService.delete calls fails: the outer catch
\* answers, after addStock and logScan have run.
quickAddDeleteFails(c) ==
    /\ call[c].pc \in {"deleteId", "deleteBarcode"}
    /\ call[c].op = "quickAdd"
    /\ call' = [call EXCEPT ![c] = OuterCatch([call[c] EXCEPT !.faults = @ \cup {"cache"}])]
    /\ UNCHANGED <<store, seed, cache, inflight, counters>>

\* The cache entries under a product's two keys.
EntriesOf(ch, prod) ==
    {ch[k] : k \in {KeyById(prod.id), KeyByBarcode(prod.barcode)} \cap DOMAIN ch}

\* quickAdd: cacheService.delete(`product:${product.id}`)
quickAddDeleteId(c) ==
    /\ call[c].pc = "deleteId"
    /\ call[c].op = "quickAdd"
    /\ cache' = CacheDelete(cache, KeyById(call[c].product.id))
    /\ call' = [call EXCEPT ![c].deleted = Append(@, KeyById(call[c].product.id)),
                            ![c].pc = "deleteBarcode"]
    /\ UNCHANGED <<store, seed, inflight, counters>>

\* Mutant: quickAdd refreshing the barcode key with its in-memory product
\* instead of deleting it.
quickAddRefreshBarcode(c) ==
    /\ call[c].pc = "deleteBarcode"
    /\ call[c].op = "quickAdd"
    /\ cache' = CacheSet(cache, KeyByBarcode(call[c].product.barcode), call[c].product)
    /\ call' = [call EXCEPT ![c] =
                  Finish(call[c],
                         [NoResp EXCEPT !.success = TRUE,
                                        !.product = call[c].product,
                                        !.newStock = call[c].product.inv,
                                        !.message = MsgQuickAddOk,
                                        !.left = EntriesOf(cache', call[c].product)])]
    /\ UNCHANGED <<store, seed, inflight, counters>>

\* quickAdd: cacheService.delete(`product:barcode:${product.barcode}`), return.
quickAddDeleteBarcode(c) ==
    /\ call[c].pc = "deleteBarcode"
    /\ call[c].op = "quickAdd"
    /\ cache' = CacheDelete(cache, KeyByBarcode(call[c].product.barcode))
    /\ call' = [call EXCEPT ![c] =
                  Finish([call[c] EXCEPT
                            !.deleted = Append(@, KeyByBarcode(call[c].product.barcode))],
                         [NoResp EXCEPT !.success = TRUE,
                                        !.product = call[c].product,
                                        !.newStock = call[c].product.inv,
                                        !.message = MsgQuickAddOk,
                                        !.left = EntriesOf(cache', call[c].product)])]
    /\ UNCHANGED <<store, seed, inflight, counters>>

\* ----------------------------------- ProductService: cached list queries
KeyLowStock == <<"products:", "low-stock">>
\* search:${searchTerm}:${limit} with the default limit.
KeySearch(term) == <<"search:", term, ":", "20">>

getLowStockProducts(c) ==
    /\ call[c].pc = "idle"
    /\ call' = [call EXCEPT ![c] =
                  [Begin("getLowStockProducts") EXCEPT !.key = KeyLowStock, !.pc = "get"]]
    /\ UNCHANGED <<store, seed, cache, inflight, counters>>

searchProducts(c, term) ==
    /\ call[c].pc = "idle"
    /\ call' = [call EXCEPT ![c] =
                  [Begin("searchProducts") EXCEPT
                      !.name = term, !.key = KeySearch(term), !.pc = "get"]]
    /\ UNCHANGED <<store, seed, cache, inflight, counters>>

\* A list query returns what getOrSet gave it.
listReturn(c) ==
    /\ call[c].pc = "resolved"
    /\ call[c].op \in {"getLowStockProducts", "searchProducts"}
    /\ call' = [call EXCEPT ![c] =
                  Finish(call[c], [NoResp EXCEPT !.success = TRUE,
                                                 !.product = call[c].val])]
    /\ UNCHANGED <<store, seed, cache, inflight, counters>>

\* ------------------------------------------- ProductService.updateProduct
MsgIdNotFound == <<"Product with ID ", "${id}", " ", "not found">>
\* The pattern with the prefix of the single-product keys.
PatternProduct == <<"product:", "*">>
PatternProducts == <<"products:", "*">>
PatternSearch == <<"search:", "*">>

updateProduct(c, id, n) ==
    /\ call[c].pc = "idle"
    /\ call' = [call EXCEPT ![c] =
                  [Begin("updateProduct") EXCEPT
                      !.id = id, !.name = n, !.key = KeyById(id), !.pc = "get"]]
    /\ UNCHANGED <<store, seed, cache, inflight, counters>>

\* updateProduct without its check of the lookup's answer.
updateProductResolvedNoNullCheck(c) ==
    /\ call[c].pc = "resolved"
    /\ call[c].op = "updateProduct"
    /\ call' = [call EXCEPT ![c].product = call[c].val, ![c].pc = "repoUpdate"]
    /\ UNCHANGED <<store, seed, cache, inflight, counters>>

\* getProductById answered: throw when absent, else issue the repository update.
updateProductResolved(c) ==
    /\ call[c].pc = "resolved"
    /\ call[c].op = "updateProduct"
    /\ call' = [call EXCEPT ![c] =
                  IF ~IsProduct(call[c].val)
                  THEN Finish(call[c], [NoResp EXCEPT !.threw = TRUE,
                                                      !.message = MsgIdNotFound])
                  ELSE [call[c] EXCEPT !.product = call[c].val, !.pc = "repoUpdate"]]
    /\ UNCHANGED <<store, seed, cache, inflight, counters>>

\* The row after repo.update(id, data): the columns data carries are
\* overwritten (deleteProduct: isActive; updateProduct: whatever the dto holds).
Patched(row, r) ==
    IF r.op = "deleteProduct"
    THEN [row EXCEPT !.isActive = FALSE]
    ELSE [row EXCEPT !.name = IF r.name # "" THEN r.name ELSE @,
                     !.barcode = IF r.barcode # <<>> THEN r.barcode ELSE @]
MsgUpdateError == <<"Error updating entity: ", "${error}">>

\* deleteProduct through BaseRepository.delete: the row is removed.
repoUpdateHardDeletes(c) ==
    /\ call[c].pc = "repoUpdate"
    /\ LET r == call[c]
       IN  /\ store' = IF r.op = "deleteProduct"
                       THEN [j \in (DOMAIN store) \ {r.id} |-> store[j]]
                       ELSE [j \in DOMAIN store |->
                               IF j = r.id THEN Patched(store[j], r) ELSE store[j]]
           /\ call' = [call EXCEPT ![c].wrote = TRUE,
                                   ![c].was = r.product.barcode,
                                   ![c].pc = "repoFindById"]
    /\ UNCHANGED <<seed, cache, inflight, counters>>

\* BaseRepository.update: repo.update(id, data); the table's unique columns
\* reject a row that collides with another one.
repoUpdate(c) ==
    /\ call[c].pc = "repoUpdate"
    /\ LET r == call[c]
           others == [j \in (DOMAIN store) \ {r.id} |-> store[j]]
       IN  IF r.id \notin DOMAIN store
           THEN /\ call' = [call EXCEPT ![c].pc = "repoFindById"]
                /\ UNCHANGED store
           ELSE IF UniqueViolation(others, Patched(store[r.id], r))
                THEN /\ call' = [call EXCEPT ![c] =
                                   Finish(r, [NoResp EXCEPT !.threw = TRUE,
                                                            !.message = MsgUpdateError])]
                     /\ UNCHANGED store
                ELSE /\ store' = [store EXCEPT ![r.id] = Patched(@, r)]
                     /\ call' = [call EXCEPT ![c].wrote = TRUE,
                                             ![c].was = store[r.id].barcode,
                                             ![c].pc = "repoFindById"]
    /\ UNCHANGED <<seed, cache, inflight, counters>>

\* BaseRepository.update: return this.findById(id)
repoFindById(c) ==
    /\ call[c].pc = "repoFindById"
    /\ call' = [call EXCEPT ![c].val = findWithRelations(store, call[c].id),
                            ![c].pc = "updDeleteId"]
    /\ UNCHANGED <<store, seed, cache, inflight, counters>>

updateProductDeleteId(c) ==
    /\ call[c].pc = "updDeleteId"
    /\ cache' = CacheDelete(cache, KeyById(call[c].id))
    /\ call' = [call EXCEPT ![c].deleted = Append(@, KeyById(call[c].id)),
                            ![c].pc = "updDeleteBarcode"]
    /\ UNCHANGED <<store, seed, inflight, counters>>

updateProductDeleteBarcode(c) ==
    /\ call[c].pc = "updDeleteBarcode"
    /\ cache' = CacheDelete(cache, KeyByBarcode(call[c].product.barcode))
    /\ call' = [call EXCEPT
                  ![c].deleted = Append(@, KeyByBarcode(call[c].product.barcode)),
                  ![c].pc = "updDeletePattern"]
    /\ UNCHANGED <<store, seed, inflight, counters>>

\* The keys a deleteByPattern removes.
Swept(ch, pattern) == {k \in DOMAIN ch : GlobMatch(pattern, k)}

updateProductDeletePattern(c) ==
    /\ call[c].pc = "updDeletePattern"
    /\ cache' = CacheDeleteByPattern(cache, PatternProducts)
    /\ call' = [call EXCEPT ![c] =
                  Finish([call[c] EXCEPT
                            !.deleted = Append(@, PatternProducts),
                            !.swept = @ \cup Swept(cache, PatternProducts)],
                         [NoResp EXCEPT !.success = TRUE, !.product = call[c].val])]
    /\ UNCHANGED <<store, seed, inflight, counters>>

\* ProductController.updateProduct: the request body is the dto, as sent.
Bodies ==
    {[name |-> "n1", barcode |-> <<>>],
     [name |-> "", barcode |-> <<"B", "1">>],
     [name |-> "", barcode |-> <<"B", "9">>]}
putProduct(c, id, body) ==
    /\ call[c].pc = "idle"
    /\ call' = [call EXCEPT ![c] =
                  [Begin("updateProduct") EXCEPT
                      !.id = id, !.name = body.name, !.barcode = body.barcode,
                      !.key = KeyById(id), !.pc = "get"]]
    /\ UNCHANGED <<store, seed, cache, inflight, counters>>

\* ------------------------------------------- ProductService.deleteProduct
deleteProduct(c, id) ==
    /\ call[c].pc = "idle"
    /\ call' = [call EXCEPT ![c] =
                  [Begin("deleteProduct") EXCEPT
                      !.id = id, !.key = KeyById(id), !.pc = "get"]]
    /\ UNCHANGED <<store, seed, cache, inflight, counters>>

\* getProductById answered: throw when absent, else issue the soft delete
\* (the repository update and the three invalidations of updateProduct).
deleteProductResolved(c) ==
    /\ call[c].pc = "resolved"
    /\ call[c].op = "deleteProduct"
    /\ call' = [call EXCEPT ![c] =
                  IF ~IsProduct(call[c].val)
                  THEN Finish(call[c], [NoResp EXCEPT !.threw = TRUE,
                                                      !.message = MsgIdNotFound])
                  ELSE [call[c] EXCEPT !.product = call[c].val, !.pc = "repoUpdate"]]
    /\ UNCHANGED <<store, seed, cache, inflight, counters>>

\* ------------------------------------------- ProductService.createProduct
MsgDuplicateBarcode == <<"Product with barcode ", "${barcode}", " already exists">>
MsgDuplicateSku == <<"Product with SKU ", "${sku}", " already exists">>
MsgCreateError == <<"Error creating entity: ", "${error}">>

createProduct(c, b, s) ==
    /\ call[c].pc = "idle"
    /\ call' = [call EXCEPT ![c] =
                  [Begin("createProduct") EXCEPT
                      !.barcode = b, !.sku = s, !.name = "n0", !.pc = "findBarcode"]]
    /\ UNCHANGED <<store, seed, cache, inflight, counters>>

\* productRepository.findByBarcode(dto.barcode) answered.
createProductFindBarcode(c) ==
    /\ call[c].pc = "findBarcode"
    /\ call' = [call EXCEPT ![c] =
                  IF IsProduct(findByBarcode(store, call[c].barcode))
                  THEN Finish(call[c], [NoResp EXCEPT !.threw = TRUE,
                                                      !.message = MsgDuplicateBarcode])
                  ELSE [call[c] EXCEPT
                          !.pc = IF call[c].sku # NoSku THEN "findSku" ELSE "create"]]
    /\ UNCHANGED <<store, seed, cache, inflight, counters>>

\* productRepository.findBySku(dto.sku) answered.
createProductFindSku(c) ==
    /\ call[c].pc = "findSku"
    /\ call' = [call EXCEPT ![c] =
                  IF IsProduct(findBySku(store, call[c].sku))
                  THEN Finish(call[c], [NoResp EXCEPT !.threw = TRUE,
                                                      !.message = MsgDuplicateSku])
                  ELSE [call[c] EXCEPT !.pc = "create"]]
    /\ UNCHANGED <<store, seed, cache, inflight, counters>>

\* The Product entity createProduct builds; its Inventory is never saved.
NewProduct(r, id) ==
    [id |-> id, barcode |-> normalize(r.barcode), sku |-> r.sku, name |-> r.name,
     isActive |-> TRUE, inv |-> NoInv]

\* productRepository.create(product)
createProductSave(c) ==
    /\ call[c].pc = "create"
    /\ LET product == NewProduct(call[c], NextId(store))
       IN  IF UniqueViolation(store, product)
           THEN /\ call' = [call EXCEPT ![c] =
                              Finish(call[c], [NoResp EXCEPT !.threw = TRUE,
                                                             !.message = MsgCreateError])]
                /\ UNCHANGED store
           ELSE /\ store' = [i \in (DOMAIN store) \cup {product.id} |->
                               IF i = product.id THEN product ELSE store[i]]
                /\ call' = [call EXCEPT ![c].product = product,
                                        ![c].wrote = TRUE,
                                        ![c].pc = "createDeleteProducts"]
    /\ UNCHANGED <<seed, cache, inflight, counters>>

createProductDeleteProducts(c) ==
    /\ call[c].pc = "createDeleteProducts"
    /\ cache' = CacheDeleteByPattern(cache, PatternProducts)
    /\ call' = [call EXCEPT ![c].deleted = Append(@, PatternProducts),
                            ![c].swept = @ \cup Swept(cache, PatternProducts),
                            ![c].pc = "createDeleteSearch"]
    /\ UNCHANGED <<store, seed, inflight, counters>>

createProductDeleteSearch(c) ==
    /\ call[c].pc = "createDeleteSearch"
    /\ cache' = CacheDeleteByPattern(cache, PatternSearch)
    /\ call' = [call EXCEPT ![c] =
                  Finish([call[c] EXCEPT
                            !.deleted = Append(@, PatternSearch),
                            !.swept = @ \cup Swept(cache, PatternSearch)],
                         [NoResp EXCEPT !.success = TRUE, !.product = call[c].product])]
    /\ UNCHANGED <<store, seed, inflight, counters>>

\* --------------------------------------- ProductService.bulkImportProducts
Dto(b, s) == [barcode |-> b, sku |-> s]
\* Import lists: two spellings of one new barcode; a taken barcode, then a
\* new one.
BulkLists ==
    {<<Dto(<<"7">>, NoSku), Dto(<<"0", "7">>, NoSku)>>,
     <<Dto(<<"a", "-", "1">>, NoSku), Dto(<<"7">>, NoSku)>>}
\* The loop calls createProduct for the first dto.
bulkImportProducts(c, dtos) ==
    /\ call[c].pc = "idle"
    /\ call' = [call EXCEPT ![c] =
                  [Begin("createProduct") EXCEPT
                      !.outer = "bulkImportProducts", !.barcode = Head(dtos).barcode,
                      !.sku = Head(dtos).sku, !.name = "n0", !.queue = Tail(dtos),
                      !.pc = "findBarcode"]]
    /\ UNCHANGED <<store, seed, cache, inflight, counters>>

\* -------------------------------------------------------------- behaviours
Next ==
    \E c \in Callers :
        \/ \E b \in RawBarcodes : getProductByBarcode(c, b)
        \/ \E i \in DOMAIN store : getProductById(c, i)
        \/ lookupReturn(c)
        \/ getOrSetGet(c)
        \/ getOrSetCompute(c)
        \/ getOrSetSet(c)
        \/ \E b \in RawBarcodes, q \in Quantities : quickAdd(c, b, q)
        \/ \E b \in RawBarcodes, q \in Quantities : receiveInventory(c, b, q)
        \/ quickAddResolved(c)
        \/ receiveInventoryResolved(c)
        \/ logScanTotal(c)
        \/ logScanType(c)
        \/ quickAddDeleteId(c)
        \/ quickAddDeleteBarcode(c)
        \/ \E i \in DOMAIN store, n \in Names : updateProduct(c, i, n)
        \/ updateProductResolved(c)
        \/ repoUpdate(c)
        \/ repoFindById(c)
        \/ updateProductDeleteId(c)
        \/ updateProductDeleteBarcode(c)
        \/ updateProductDeletePattern(c)
        \/ \E b \in DtoBarcodes, s \in {NoSku, "s1"} : createProduct(c, b, s)
        \/ createProductFindBarcode(c)
        \/ createProductFindSku(c)
        \/ createProductSave(c)
        \/ createProductDeleteProducts(c)
        \/ createProductDeleteSearch(c)

Spec == Init /\ [][Next]_vars

\* A client that got the answer of a read sends its next request.
ReadOps == {"getProductById", "getLowStockProducts", "searchProducts", "decodeScan"}
nextRequest(c) ==
    /\ call[c].pc = "done"
    /\ call[c].op \in ReadOps
    /\ counters["metrics:total-scans"] < MaxScans
    /\ call' = [call EXCEPT ![c] = Idle]
    /\ UNCHANGED <<store, seed, cache, inflight, counters>>

\* createProduct against clients that read products and lists.
NextCreate ==
    \E c \in Callers :
        \/ getProductById(c, "p1")
        \/ getLowStockProducts(c)
        \/ \E t \in SearchTerms : searchProducts(c, t)
        \/ lookupReturn(c)
        \/ listReturn(c)
        \/ nextRequest(c)
        \/ getOrSetGet(c)
        \/ getOrSetCompute(c)
        \/ getOrSetSet(c)
        \/ \E b \in {<<"7">>, <<"A", "1">>} : createProduct(c, b, NoSku)
        \/ createProductFindBarcode(c)
        \/ createProductSave(c)
        \/ createProductDeleteProducts(c)
        \/ createProductDeleteSearch(c)

SpecCreate == Init /\ [][NextCreate]_vars

\* Updates against reads and creates of the same ids: one id the store
\* holds, one it holds only once the create has committed.
UpdateIds == {"p1", "p3"}
NextUpdate ==
    \E c \in Callers :
        \/ \E i \in UpdateIds : getProductById(c, i)
        \/ lookupReturn(c)
        \/ getOrSetGet(c)
        \/ getOrSetCompute(c)
        \/ getOrSetSet(c)
        \/ \E i \in UpdateIds, body \in Bodies : putProduct(c, i, body)
        \/ updateProductResolved(c)
        \/ repoUpdate(c)
        \/ repoFindById(c)
        \/ updateProductDeleteId(c)
        \/ updateProductDeleteBarcode(c)
        \/ updateProductDeletePattern(c)
        \/ createProduct(c, <<"7">>, NoSku)
        \/ createProductFindBarcode(c)
        \/ createProductSave(c)
        \/ createProductDeleteProducts(c)
        \/ createProductDeleteSearch(c)

SpecUpdate == Init /\ [][NextUpdate]_vars

\* The writers of the products table alone.
WriteBodies == {body \in Bodies : body.barcode # <<>>}
NextWrites ==
    \E c \in Callers :
        \/ getOrSetGet(c)
        \/ getOrSetCompute(c)
        \/ getOrSetSet(c)
        \/ \E body \in WriteBodies : putProduct(c, "p1", body)
        \/ updateProductResolved(c)
        \/ deleteProduct(c, "p2")
        \/ deleteProductResolved(c)
        \/ repoUpdate(c)
        \/ repoFindById(c)
        \/ updateProductDeleteId(c)
        \/ updateProductDeleteBarcode(c)
        \/ updateProductDeletePattern(c)
        \/ \E b \in {<<"7">>, <<"A", "1">>} : createProduct(c, b, NoSku)
        \/ \E dtos \in BulkLists : bulkImportProducts(c, dtos)
        \/ createProductFindBarcode(c)
        \/ createProductSave(c)
        \/ createProductDeleteProducts(c)
        \/ createProductDeleteSearch(c)

SpecWrites == Init /\ [][NextWrites]_vars

\* Lookup scans, with a durable store that may fail a query.
NextDecode ==
    \E c \in Callers :
        \/ \E b \in RawBarcodes : decodeScan(c, b)
        \/ decodeScanCacheGet(c)
        \/ getOrSetGet(c)
        \/ getOrSetCompute(c)
        \/ getOrSetFails(c)
        \/ getOrSetSet(c)
        \/ decodeScanResolved(c)
        \/ decodeScanRejected(c)
        \/ decodeScanCacheSet(c)
        \/ logScanTotal(c)
        \/ logScanType(c)

SpecDecode == Init /\ [][NextDecode]_vars

\* Batches of scans.
NextBatch ==
    \E c \in Callers :
        \/ \E barcodes \in BatchLists, mode \in BatchModes :
              batchScan(c, barcodes, mode[1], mode[2])
        \/ decodeScanCacheGet(c)
        \/ decodeScanResolved(c)
        \/ decodeScanCacheSet(c)
        \/ getOrSetGet(c)
        \/ getOrSetCompute(c)
        \/ getOrSetSet(c)
        \/ quickAddResolved(c)
        \/ receiveInventoryResolved(c)
        \/ logScanTotal(c)
        \/ logScanType(c)
        \/ quickAddDeleteId(c)
        \/ quickAddDeleteBarcode(c)

SpecBatch == Init /\ [][NextBatch]_vars

\* Scans whose logging may fail.
LogBarcodes == {<<"a", "-", "1">>, <<"7">>}
NextLog ==
    \E c \in Callers :
        \/ \E b \in LogBarcodes : decodeScan(c, b)
        \/ decodeScanCacheGet(c)
        \/ decodeScanResolved(c)
        \/ decodeScanCacheSet(c)
        \/ getOrSetGet(c)
        \/ getOrSetCompute(c)
        \/ getOrSetSet(c)
        \/ \E b \in LogBarcodes : quickAdd(c, b, MaxQty)
        \/ \E b \in LogBarcodes : receiveInventory(c, b, MaxQty)
        \/ quickAddResolved(c)
        \/ receiveInventoryResolved(c)
        \/ logScanTotal(c)
        \/ logScanType(c)
        \/ logScanFails(c)
        \/ quickAddDeleteId(c)
        \/ quickAddDeleteBarcode(c)

SpecLog == Init /\ [][NextLog]_vars

\* Lookups against a cache that may be unreachable.
NextCacheDown ==
    \E c \in Callers :
        \/ \E b \in LogBarcodes : decodeScan(c, b)
        \/ decodeScanCacheGet(c)
        \/ decodeScanCacheFails(c)
        \/ decodeScanResolved(c)
        \/ decodeScanRejected(c)
        \/ decodeScanCacheSet(c)
        \/ \E b \in LogBarcodes : getProductByBarcode(c, b)
        \/ lookupReturn(c)
        \/ lookupRejected(c)
        \/ getOrSetGet(c)
        \/ getOrSetGetFails(c)
        \/ getOrSetCompute(c)
        \/ getOrSetSet(c)
        \/ logScanTotal(c)
        \/ logScanType(c)

SpecCacheDown == Init /\ [][NextCacheDown]_vars

\* Concurrent lookups of one barcode in several spellings.
FlightBarcodes == {<<"a", "-", "1">>, <<"A", "1">>, <<"a", "1">>, <<"7">>}
NextFlight ==
    \E c \in Callers :
        \/ \E b \in FlightBarcodes : getProductByBarcode(c, b)
        \/ lookupReturn(c)
        \/ getOrSetGet(c)
        \/ getOrSetCompute(c)
        \/ getOrSetSet(c)

SpecFlight == Init /\ [][NextFlight]_vars

\* Stock scans in which the lookup, the logging and the cache deletions may fail.
NextAtomic ==
    \E c \in Callers :
        \/ \E b \in LogBarcodes, q \in Quantities : quickAdd(c, b, q)
        \/ \E b \in LogBarcodes, q \in Quantities : receiveInventory(c, b, q)
        \/ getOrSetGet(c)
        \/ getOrSetCompute(c)
        \/ getOrSetFails(c)
        \/ getOrSetSet(c)
        \/ scanRejected(c)
        \/ quickAddResolved(c)
        \/ receiveInventoryResolved(c)
        \/ logScanTotal(c)
        \/ logScanType(c)
        \/ logScanFails(c)
        \/ quickAddDeleteId(c)
        \/ quickAddDeleteBarcode(c)
        \/ quickAddDeleteFails(c)

SpecAtomic == Init /\ [][NextAtomic]_vars

\* Lookup scans of one product, repeated, beside an update of that product.
StaleBarcodes == {<<"a", "-", "1">>, <<"A", "1">>}
NextStale ==
    \E c \in Callers :
        \/ \E b \in StaleBarcodes : decodeScan(c, b)
        \/ decodeScanCacheGet(c)
        \/ decodeScanResolved(c)
        \/ decodeScanCacheSet(c)
        \/ logScanTotal(c)
        \/ logScanType(c)
        \/ nextRequest(c)
        \/ getOrSetGet(c)
        \/ getOrSetCompute(c)
        \/ getOrSetSet(c)
        \/ updateProduct(c, "p1", "n1")
        \/ updateProductResolved(c)
        \/ repoUpdate(c)
        \/ repoFindById(c)
        \/ updateProductDeleteId(c)
        \/ updateProductDeleteBarcode(c)
        \/ updateProductDeletePattern(c)

SpecStale == Init /\ [][NextStale]_vars

\* Concurrent decodeScan, quickAdd and receiveInventory with no failing
\* collaborator.
NextCounters ==
    \E c \in Callers :
        \/ \E b \in LogBarcodes : decodeScan(c, b)
        \/ decodeScanCacheGet(c)
        \/ decodeScanResolved(c)
        \/ decodeScanCacheSet(c)
        \/ getOrSetGet(c)
        \/ getOrSetCompute(c)
        \/ getOrSetSet(c)
        \/ \E b \in LogBarcodes, q \in Quantities : quickAdd(c, b, q)
        \/ \E b \in LogBarcodes, q \in Quantities : receiveInventory(c, b, q)
        \/ quickAddResolved(c)
        \/ receiveInventoryResolved(c)
        \/ logScanTotal(c)
        \/ logScanType(c)
        \/ quickAddDeleteId(c)
        \/ quickAddDeleteBarcode(c)

SpecCounters == Init /\ [][NextCounters]_vars

\* The scan pipeline alone: lookups by barcode, quickAdd and receiveInventory.
NextScan ==
    \E c \in Callers :
        \/ \E b \in RawBarcodes : getProductByBarcode(c, b)
        \/ lookupReturn(c)
        \/ getOrSetGet(c)
        \/ getOrSetCompute(c)
        \/ getOrSetSet(c)
        \/ \E b \in RawBarcodes, q \in Quantities : quickAdd(c, b, q)
        \/ \E b \in RawBarcodes, q \in Quantities : receiveInventory(c, b, q)
        \/ quickAddResolved(c)
        \/ receiveInventoryResolved(c)
        \/ logScanTotal(c)
        \/ logScanType(c)
        \/ quickAddDeleteId(c)
        \/ quickAddDeleteBarcode(c)

SpecScan == Init /\ [][NextScan]_vars

\* ------------------------------------------------------------------ claims
Done(c) == call[c].pc = "done"
Quiescent == \A c \in Callers : call[c].pc \in {"idle", "done"}
StockOps == {"quickAdd", "receiveInventory"}
\* A stock request past addStock: the increment sits in its in-memory product.
StockApplied(c) ==
    /\ call[c].op \in StockOps
    /\ \/ call[c].pc \in {"logTotal", "logType", "deleteId", "deleteBarcode"}
       \/ (Done(c) /\ call[c].resp.success)
RECURSIVE SumQty(_, _)
\* The quantities of the completed stock requests among cs that target barcode b.
SumQty(cs, b) ==
    IF cs = {} THEN 0
    ELSE LET c == CHOOSE x \in cs : TRUE
             q == IF /\ Done(c)
                     /\ call[c].op \in StockOps
                     /\ call[c].qty > 0
                     /\ normalize(call[c].barcode) = b
                  THEN call[c].qty ELSE 0
         IN  q + SumQty(cs \ {c}, b)

\* C1: once every quickAdd/receiveInventory request with a positive quantity
\* has completed, the durable quantityOnHand of the product they target is its
\* value before the first request plus the sum of their quantities.
C1_NoLostUpdate ==
    Quiescent =>
        \A i \in DOMAIN seed :
            HasInventory(seed[i]) =>
                store[i].inv = seed[i].inv + SumQty(Callers, seed[i].barcode)

C3_InvalidateAfterDurableWrite ==
    \A c \in Callers :
        (call[c].op \in StockOps /\ StockApplied(c) /\ call[c].deleted # <<>>)
            => store[call[c].product.id].inv >= call[c].product.inv

\* C4: once one updateProduct and the lookups running beside it have all
\* completed, the entries under product:<id> and product:barcode:<barcode>, if
\* present, hold the post-update product.
C4_NoStaleResurrection ==
    \A u \in Callers :
        ( /\ Quiescent
          /\ call[u].op = "updateProduct" /\ call[u].resp.success
          /\ \A d \in Callers \ {u} :
                call[d].op \in {"idle", "getProductById", "getProductByBarcode"} )
        => \A e \in EntriesOf(cache, call[u].product) : e = store[call[u].id]

\* C5: a quickAdd of quantity q > 0 that starts after createProduct of the same
\* barcode has succeeded returns success with newStock = q.
C5_CreateThenQuickAdd ==
    \A c, d \in Callers :
        ( /\ call[c].op = "createProduct" /\ Done(c) /\ call[c].resp.success
          /\ call[d].op = "quickAdd" /\ Done(d) /\ c \in call[d].after
          /\ call[d].qty > 0
          /\ normalize(call[d].barcode) = call[c].product.barcode )
        => (call[d].resp.success /\ call[d].resp.newStock = call[d].qty)

\* C6: a quickAdd of a barcode no product has returns success=false with a
\* message containing "not found", changes no inventory, deletes no cache
\* entry and builds no scan log that carries a product.
C6_QuickAddNotFound ==
    \A c \in Callers :
        ( /\ Done(c) /\ call[c].op = "quickAdd"
          /\ ~IsProduct(findByBarcode(store, normalize(call[c].barcode))) )
        => /\ ~call[c].resp.success
           /\ Contains(call[c].resp.message, "not found")
           /\ \A i \in DOMAIN call[c].pre : store[i].inv = call[c].pre[i]
           /\ call[c].deleted = <<>>
           /\ \A j \in 1..Len(call[c].log) : call[c].log[j].product = ""

\* C6 witness: a quickAdd of a barcode without product has returned.
C6_Witness ==
    \E c \in Callers :
        /\ Done(c) /\ call[c].op = "quickAdd"
        /\ ~IsProduct(findByBarcode(store, normalize(call[c].barcode)))
        /\ call[c].qty > 0

\* C7: quickAdd and receiveInventory with quantity <= 0 on a product that has
\* an inventory record return success=false, leave its durable quantityOnHand
\* as it was before the call, and log no scan.
C7_InvalidQuantityRejected ==
    \A c \in Callers :
        ( /\ Done(c) /\ call[c].op \in StockOps
          /\ call[c].qty <= 0 /\ HasInventory(call[c].val) )
        => /\ ~call[c].resp.success
           /\ store[call[c].val.id].inv = call[c].pre[call[c].val.id]
           /\ call[c].log = <<>>

\* C7 witness: a quickAdd and a receiveInventory with quantity <= 0 have both
\* returned for a product with an inventory record.
C7_Witness ==
    \E c, d \in Callers :
        /\ Done(c) /\ call[c].op = "quickAdd"
        /\ Done(d) /\ call[d].op = "receiveInventory"
        /\ call[c].qty <= 0 /\ HasInventory(call[c].val)
        /\ call[d].qty <= 0 /\ HasInventory(call[d].val)

\* C8: quickAdd and receiveInventory on a product without inventory record
\* fail and say so; no inventory record is created, no stock counter changes,
\* no cache entry is deleted and no scan is logged.
C8_MissingInventoryFails ==
    \A c \in Callers :
        ( /\ Done(c) /\ call[c].op \in StockOps
          /\ IsProduct(call[c].val) /\ ~HasInventory(call[c].val) )
        => /\ ~call[c].resp.success
           /\ call[c].resp.message \in {MsgQuickAddNoInventory, MsgReceiveNoInventory}
           /\ ~HasInventory(call[c].resp.product)
           /\ ~HasInventory(store[call[c].val.id])
           /\ \A i \in DOMAIN call[c].pre : store[i].inv = call[c].pre[i]
           /\ call[c].deleted = <<>>
           /\ call[c].log = <<>>

\* C8 witness: a quickAdd and a receiveInventory of a positive quantity have
\* both returned for a product without inventory record.
C8_Witness ==
    \E c, d \in Callers :
        /\ Done(c) /\ call[c].op = "quickAdd"
        /\ Done(d) /\ call[d].op = "receiveInventory"
        /\ call[c].qty > 0 /\ IsProduct(call[c].val) /\ ~HasInventory(call[c].val)
        /\ call[d].qty > 0 /\ IsProduct(call[d].val) /\ ~HasInventory(call[d].val)

\* C9: when quickAdd returns success=true it has deleted product:<id> and
\* product:barcode:<barcode>, and no entry under either key still holds a
\* snapshot with the quantityOnHand from before the addition.
C9_QuickAddLeavesNoStaleEntry ==
    \A c \in Callers :
        (Done(c) /\ call[c].op = "quickAdd" /\ call[c].resp.success)
        => /\ call[c].deleted = <<KeyById(call[c].product.id),
                                  KeyByBarcode(call[c].product.barcode)>>
           /\ \A e \in call[c].resp.left : e.inv # call[c].val.inv

\* C10: a receiveInventory and a quickAdd of the same barcode and quantity that
\* resolved the same product give the same success flag, the same newStock and
\* the same cache invalidations, and log one scan each or none.
C10_ReceiveSameAsQuickAdd ==
    \A c, d \in Callers :
        ( /\ Done(c) /\ call[c].op = "quickAdd"
          /\ Done(d) /\ call[d].op = "receiveInventory"
          /\ call[c].barcode = call[d].barcode
          /\ call[c].qty = call[d].qty
          /\ call[c].val = call[d].val )
        => /\ call[c].resp.success = call[d].resp.success
           /\ call[c].resp.newStock = call[d].resp.newStock
           /\ call[c].deleted = call[d].deleted
           /\ Len(call[c].log) = Len(call[d].log)

\* C11: in every updateProduct that succeeds, the durable update is committed
\* before any cache key is deleted, and at return exactly product:<id>,
\* product:barcode:<the barcode the row had before the update> and the
\* pattern products:* have been deleted, in that order.
C11_UpdateInvalidatesAfterWrite ==
    \A c \in Callers :
        call[c].op = "updateProduct" =>
            /\ (call[c].deleted # <<>> => call[c].wrote)
            /\ (Done(c) /\ call[c].resp.success =>
                   /\ call[c].wrote
                   /\ call[c].deleted = <<KeyById(call[c].id),
                                          KeyByBarcode(call[c].was),
                                          PatternProducts>>)

\* C12: updateProduct for an id the durable store does not hold throws a
\* not-found error, issues no durable update and deletes no cache entry.
C12_UpdateUnknownIdHasNoEffect ==
    \A c \in Callers :
        (/\ call[c].op = "updateProduct"
         /\ call[c].id \notin DOMAIN store) =>
            /\ call[c].pc \in {"get", "compute", "set", "wait", "resolved", "done"}
            /\ ~call[c].wrote
            /\ call[c].deleted = <<>>
            /\ call[c].swept = {}
            /\ Done(c) => /\ call[c].resp.threw
                          /\ ~call[c].resp.success
                          /\ call[c].resp.message = MsgIdNotFound
                          /\ Contains(call[c].resp.message, "not found")
C12_Witness ==
    \E c \in Callers :
        /\ call[c].op = "updateProduct"
        /\ call[c].id \notin DOMAIN store
        /\ Done(c)
        /\ cache # <<>>

\* C13: a createProduct whose dto barcode, once normalized, is the barcode of
\* a product the store already holds, or whose sku is already held, throws a
\* duplicate-barcode or duplicate-SKU error, adds no product and issues no
\* cache invalidation.
SeedDuplicate(r) ==
    \E i \in DOMAIN seed :
        \/ seed[i].barcode = normalize(r.barcode)
        \/ (r.sku # NoSku /\ seed[i].sku = r.sku)
C13_DuplicateRejected ==
    \A c \in Callers :
        (/\ call[c].op = "createProduct"
         /\ call[c].outer = ""
         /\ Done(c)
         /\ SeedDuplicate(call[c])) =>
            /\ call[c].resp.threw
            /\ call[c].resp.message \in {MsgDuplicateBarcode, MsgDuplicateSku}
            /\ ~call[c].wrote
            /\ call[c].deleted = <<>>

\* C14: whatever createProduct, bulkImportProducts, updateProduct and
\* deleteProduct calls have run, concurrently or not, no two products of the
\* durable store have the same barcode.
C14_BarcodeUnique ==
    \A i, j \in DOMAIN store : store[i].barcode = store[j].barcode => i = j
\* Two createProduct calls for one normalized barcode have both returned, one
\* of them rejected by the table, and the store has grown.
C14_Witness ==
    /\ \E c, d \in Callers :
          /\ c # d
          /\ call[c].op = "createProduct" /\ Done(c)
          /\ call[d].op = "createProduct" /\ Done(d)
          /\ normalize(call[c].barcode) = normalize(call[d].barcode)
          /\ call[c].results.created + (IF call[c].resp.product # NoProduct THEN 1 ELSE 0) > 0
          /\ \/ call[d].resp.message = MsgCreateError
             \/ call[d].results.failed > 0
    /\ Cardinality(DOMAIN store) > Cardinality(DOMAIN seed)

\* C15: no step of any request changes the barcode of a product the durable
\* store holds: every product keeps the barcode it was created with.
C15_BarcodeImmutable ==
    [][\A i \in DOMAIN store : store'[i].barcode = store[i].barcode]_vars

\* C16: a createProduct issues its pattern deletes only after its durable
\* create; once it has returned successfully it has issued products:* and
\* search:*, no products:* or search:* entry put in the cache before the
\* create is left, and it removed no key of another prefix.
ListKey(k) == Head(k) \in {"products:", "search:"}
C16_CreateSweepsListKeys ==
    \A c \in Callers :
        (call[c].op = "createProduct" /\ call[c].outer = "") =>
            /\ (call[c].deleted # <<>> => call[c].wrote)
            /\ \A k \in call[c].swept : ListKey(k)
            /\ (Done(c) /\ call[c].resp.success =>
                   /\ call[c].deleted = <<PatternProducts, PatternSearch>>
                   /\ \A k \in DOMAIN cache :
                         ListKey(k) => call[c].resp.product.id \in cache[k].known)
\* A create has returned after removing a products:* and a search:* entry
\* while a product:<id> entry stayed in the cache.
C16_Witness ==
    \E c \in Callers :
        /\ call[c].op = "createProduct"
        /\ Done(c)
        /\ call[c].resp.success
        /\ KeyLowStock \in call[c].swept
        /\ \E k \in call[c].swept : Head(k) = "search:"
        /\ KeyById("p1") \in DOMAIN cache

\* C17: decodeScan never raises: whatever the raw barcode and whether the
\* lookup finds a product, finds none or fails, the call returns a response
\* with the decoded barcode; without a product the response has success =
\* false and a non-empty message.
C17_DecodeScanNeverRaises ==
    \A c \in Callers :
        (call[c].op = "decodeScan" /\ call[c].outer = "" /\ Done(c)) =>
            /\ ~call[c].resp.threw
            /\ call[c].resp.barcode = decode(call[c].barcode)
            /\ call[c].resp.barcode.rawValue = call[c].barcode
            /\ call[c].resp.success = IsProduct(call[c].resp.product)
            /\ ~IsProduct(call[c].resp.product) =>
                  /\ ~call[c].resp.success
                  /\ call[c].resp.message # <<>>
\* One lookup scan found no product, another one's lookup failed.
C17_Witness ==
    \E c, d \in Callers :
        /\ call[c].op = "decodeScan" /\ Done(c)
        /\ call[c].resp.message = MsgDecodeNotFound
        /\ call[d].op = "decodeScan" /\ Done(d)
        /\ call[d].resp.message = MsgDecodeError

\* C18: every completed decodeScan, quickAdd or receiveInventory, successful
\* or not, has recorded exactly one scan-log entry of its scan type, and once
\* all calls have returned metrics:total-scans counts them all and each
\* metrics:scans:<type> counts the calls of that type.
ScanOps == {"decodeScan", "quickAdd", "receiveInventory"}
ScansDone(type) ==
    {c \in Callers : call[c].op \in ScanOps /\ Done(c) /\ ScanTypeOf(call[c].op) = type}
C18_EveryScanJournaled ==
    /\ \A c \in Callers :
          (call[c].op \in ScanOps /\ call[c].outer = "" /\ Done(c)) =>
              /\ Len(call[c].log) = 1
              /\ call[c].log[1].scanType = ScanTypeOf(call[c].op)
    /\ Quiescent =>
          /\ counters["metrics:total-scans"] =
                Cardinality(UNION {ScansDone(t) : t \in {"lookup", "add", "receive"}})
          /\ \A t \in {"lookup", "add", "receive"} :
                counters[CounterOf(t)] = Cardinality(ScansDone(t))

\* C19: a batchScan whose operation / quantity combination no branch handles
\* (count; add or receive without a quantity) does not throw: it returns with
\* exactly one failed item per barcode, no succeeded item and no scan log, and
\* leaves the store, the cache and the counters as they were.
BatchUnsupported(r) == r.outer = "batchScan" /\ ~Supported(r.batchOp, r.qty)
FailedItemsAt(r, i) ==
    {k \in 1..Len(r.results.items) :
        /\ r.results.items[k].defined
        /\ ~r.results.items[k].success
        /\ r.results.items[k].pos = i
        /\ r.results.items[k].barcode = r.input[i]}
C19_UnsupportedYieldsFailedItems ==
    [][\A c \in Callers :
          (call[c].pc = "idle" /\ BatchUnsupported(call'[c])) =>
              /\ call'[c].pc = "done"
              /\ ~call'[c].resp.threw
              /\ \A i \in 1..Len(call'[c].input) :
                    Cardinality(FailedItemsAt(call'[c], i)) = 1
              /\ call'[c].results.succeeded = 0
              /\ call'[c].results.failed = Len(call'[c].input)
              /\ call'[c].log = <<>>
              /\ store' = store
              /\ cache' = cache
              /\ counters' = counters]_vars
\* An unhandled batch of several barcodes has returned while the cache and
\* the counters held something to change.
C19_Witness ==
    \E c \in Callers :
        /\ BatchUnsupported(call[c])
        /\ Done(c)
        /\ Len(call[c].input) > 1
        /\ cache # <<>>
        /\ counters["metrics:total-scans"] > 0

\* C20: batchScan isolates its items: every barcode whose iteration is over
\* has exactly one item, with the outcome that barcode has on its own (found /
\* has inventory / quantity accepted, new stock = stock + quantity), whatever
\* the items before it did; at return every position has its item; and no
\* stock is taken back.
ExpectedItem(r, i) ==
    LET prod == findByBarcode(store, normalize(r.input[i]))
        ok == IF r.batchOp = "lookup"
              THEN IsProduct(prod)
              ELSE IsProduct(prod) /\ HasInventory(prod) /\ ~AddStockThrows(r.qty)
    IN  [success |-> ok,
         newStock |-> IF ok /\ r.batchOp # "lookup" THEN prod.inv + r.qty ELSE 0]
ItemsAt(r, i) == {k \in 1..Len(r.results.items) : r.results.items[k].pos = i}
Settled(r) == IF r.pc = "done" THEN Len(r.input) ELSE PosOf(r) - 1
C20_BatchIsolatesItems ==
    /\ \A c \in Callers :
          (call[c].outer = "batchScan" /\ Supported(call[c].batchOp, call[c].qty)) =>
              \A i \in 1..Settled(call[c]) :
                  /\ Cardinality(ItemsAt(call[c], i)) = 1
                  /\ \A k \in ItemsAt(call[c], i) :
                        /\ call[c].results.items[k].barcode = call[c].input[i]
                        /\ call[c].results.items[k].success =
                              ExpectedItem(call[c], i).success
                        /\ call[c].results.items[k].newStock =
                              ExpectedItem(call[c], i).newStock
    /\ \A p \in DOMAIN seed : store[p].inv >= seed[p].inv
\* A batch has returned whose first item succeeded, second failed and third
\* succeeded.
C20_Witness ==
    \E c \in Callers :
        /\ call[c].outer = "batchScan"
        /\ call[c].batchOp \in {"add", "receive"}
        /\ Done(c)
        /\ Len(call[c].results.items) = 3
        /\ call[c].results.items[1].success
        /\ ~call[c].results.items[2].success
        /\ call[c].results.items[3].success
        /\ call[c].results.items[3].newStock > 0

\* C21: a scan whose logging failed returns what it returns when logging
\* succeeds: decodeScan the product it resolved with success = found;
\* quickAdd and receiveInventory success with the product and newStock =
\* looked-up stock + quantity; and quickAdd has deleted both cache keys.
C21_LoggingFailureSwallowed ==
    \A c \in Callers :
        (/\ call[c].op \in ScanOps
         /\ call[c].outer = ""
         /\ Done(c)
         /\ "log" \in call[c].faults) =>
            /\ ~call[c].resp.threw
            /\ call[c].resp.product.id = call[c].product.id
            /\ call[c].op = "decodeScan" =>
                  call[c].resp.success = IsProduct(call[c].product)
            /\ call[c].op \in StockOps =>
                  /\ call[c].resp.success
                  /\ call[c].resp.product.id = call[c].val.id
                  /\ call[c].resp.newStock = call[c].val.inv + call[c].qty
            /\ call[c].op = "quickAdd" =>
                  call[c].deleted = <<KeyById(call[c].val.id),
                                      KeyByBarcode(call[c].val.barcode)>>
\* A quickAdd and a decodeScan whose logging failed have returned.
C21_Witness ==
    \E c, d \in Callers :
        /\ call[c].op = "quickAdd" /\ Done(c) /\ "log" \in call[c].faults
        /\ call[c].resp.success
        /\ call[d].op = "decodeScan" /\ Done(d) /\ "log" \in call[d].faults

\* C22: a decodeScan or getProductByBarcode during which a cache operation
\* failed still returns the product the durable store holds for the barcode
\* (decodeScan with success = true) and does not fail.
C22_CacheNeverHardDependency ==
    \A c \in Callers :
        (/\ call[c].op \in {"decodeScan", "getProductByBarcode"}
         /\ Done(c)
         /\ "cache" \in call[c].faults
         /\ IsProduct(findByBarcode(store, normalize(call[c].barcode)))) =>
            /\ ~call[c].resp.threw
            /\ call[c].resp.success
            /\ call[c].resp.product.id =
                  findByBarcode(store, normalize(call[c].barcode)).id

\* C23: among concurrent getProductByBarcode calls for barcodes with the same
\* normalized value at most one runs the durable-store query; a caller that
\* missed while the query was running never runs it itself and is answered,
\* in the step that ends the query, with the value the querying caller got.
Querying(c) == call[c].op = "getProductByBarcode" /\ call[c].pc \in {"compute", "set"}
SameBarcode(c, d) == normalize(call[c].barcode) = normalize(call[d].barcode)
C23_SingleFlight ==
    [][/\ \A c, d \in Callers :
             (Querying(c) /\ Querying(d) /\ SameBarcode(c, d)) => c = d
       /\ \A d \in Callers :
             call[d].pc = "wait" =>
                 \/ call'[d] = call[d]
                 \/ \E c \in Callers :
                       /\ Querying(c)
                       /\ call[c].pc = "set"
                       /\ SameBarcode(c, d)
                       /\ call'[c].pc = "resolved"
                       /\ call'[d].pc = "resolved"
                       /\ call'[d].val = call'[c].val]_vars
\* Two callers with two spellings of one barcode: one is about to end the
\* query, the other waits for it.
C23_Witness ==
    \E c, d \in Callers :
        /\ Querying(c) /\ call[c].pc = "set"
        /\ call[d].op = "getProductByBarcode" /\ call[d].pc = "wait"
        /\ call[c].barcode # call[d].barcode
        /\ SameBarcode(c, d)
        /\ IsProduct(call[c].val)

\* C24: no step removes a product from the durable store; the store write of
\* deleteProduct only turns isActive of its product to false; and a
\* deleteProduct that has returned wrote first and then deleted product:<id>,
\* product:barcode:<barcode of the product it looked up> and products:*.
C24_NeverHardDeleted ==
    [][/\ DOMAIN store \subseteq DOMAIN store'
       /\ \A c \in Callers :
             call[c].op = "deleteProduct" =>
                 /\ (call[c].pc = "repoUpdate" /\ call'[c].pc # "repoUpdate") =>
                        store' = [store EXCEPT ![call[c].id].isActive = FALSE]
                 /\ (call'[c].deleted # <<>> => call'[c].wrote)
                 /\ (call'[c].pc = "done" /\ call'[c].resp.success) =>
                        /\ ~store'[call[c].id].isActive
                        /\ call'[c].deleted = <<KeyById(call[c].id),
                                                KeyByBarcode(call[c].product.barcode),
                                                PatternProducts>>]_vars
\* A deleteProduct has returned, its product is inactive and still stored, and
\* a product was created meanwhile.
C24_Witness ==
    \E c \in Callers :
        /\ call[c].op = "deleteProduct"
        /\ Done(c)
        /\ call[c].resp.success
        /\ call[c].id \in DOMAIN store
        /\ ~store[call[c].id].isActive
        /\ Cardinality(DOMAIN store) > Cardinality(DOMAIN seed)

C26_NoStaleScan ==
    \A c \in Callers :
        (/\ call[c].op = "decodeScan"
         /\ call[c].outer = ""
         /\ Done(c)
         /\ IsProduct(call[c].resp.product)) =>
            \A d \in call[c].seen :
                (/\ call[d].op = "updateProduct"
                 /\ call[d].resp.success
                 /\ call[d].id = call[c].resp.product.id) =>
                    call[c].resp.product.name = call[d].name

\* C27: a batchScan that has returned has processed = n, succeeded + failed = n
\* and exactly n items, the i-th for the i-th input barcode, n being the number
\* of input barcodes.
C27_BatchTallyConsistent ==
    \A c \in Callers :
        (call[c].outer = "batchScan" /\ Done(c)) =>
            LET res == call[c].results
                n == Len(call[c].input)
            IN  /\ res.processed = n
                /\ res.succeeded + res.failed = n
                /\ Len(res.items) = n
                /\ \A i \in 1..n :
                      /\ res.items[i].defined
                      /\ res.items[i].barcode = call[c].input[i]

\* C28: once no scan is in flight, metrics:total-scans is the sum of
\* metrics:scans:lookup, metrics:scans:add and metrics:scans:receive, and is
\* the number of scans logged; each of the three is the number of scans logged
\* with its type.
RECURSIVE Logged(_, _)
Logged(cs, types) ==
    IF cs = {} THEN 0
    ELSE LET c == CHOOSE x \in cs : TRUE
         IN  Cardinality({k \in 1..Len(call[c].log) : call[c].log[k].scanType \in types})
             + Logged(cs \ {c}, types)
ScanTypes == {"lookup", "add", "receive"}
C28_CountersConsistent ==
    Quiescent =>
        /\ counters["metrics:total-scans"] =
              counters["metrics:scans:lookup"] + counters["metrics:scans:add"]
              + counters["metrics:scans:receive"]
        /\ counters["metrics:total-scans"] = Logged(Callers, ScanTypes)
        /\ \A t \in ScanTypes : counters[CounterOf(t)] = Logged(Callers, {t})
\* No scan is in flight after two scans of different types were logged.
C28_Witness ==
    /\ Quiescent
    /\ counters["metrics:total-scans"] = 2
    /\ counters["metrics:scans:lookup"] = 1
    /\ counters["metrics:scans:add"] + counters["metrics:scans:receive"] = 1
====
